---- MODULE Spec2Model ----
(***************************************************************************)
(* Model of the initialization state of hedera-local-node                  *)
(* (src/src/state/InitState.ts): one activation of InitState.onStart is a  *)
(* sequence of steps, one action per awaited call or synchronous helper.   *)
(* The collaborators whose code is outside the source tree                 *)
(* (ConfigurationData, DockerService, FileSystemUtils, the JSON templates) *)
(* are modelled from their contract in spec.md.                            *)
(***************************************************************************)
EXTENDS Naturals, Sequences, FiniteSets, TLC

VARIABLES
    cliOptions,         \* InitState.cliOptions (RunOptions), fixed for the run
    catalog,            \* the catalog entries the run can select (shared objects)
    configurationData,  \* onStart's local: what the catalog lookup returned
    pc,                 \* position of the activation inside onStart
    checks,             \* results of the three readiness checks
    portsInUse,         \* ports the port scan found in use
    env,                \* process.env
    fs,                 \* the working directory tree
    srcBootstrap,       \* bootstrap.properties of the packaged config directory
    events,             \* events delivered to observer.update, this activation
    log,                \* calls made by this activation, in order
    failure,            \* why the activation ended without returning normally
    run,                \* number of the current activation
    envAtStart,         \* process.env when the current activation began
    fsAtStart,          \* working directory when the current activation began
    prevBootstrap       \* bootstrap.properties left by the previous activation

vars == <<cliOptions, catalog, configurationData, pc, checks, portsInUse, env, fs,
          srcBootstrap, events, log, failure, run, envAtStart, fsAtStart,
          prevBootstrap>>

(***************************************************************************)
(* Bounds of the model.                                                    *)
(***************************************************************************)
\* activations of onStart in one process
MaxRuns == 2
\* ports a single scan may report as in use
MaxPortsInUse == 1

(***************************************************************************)
(* Constants of the program.                                               *)
(***************************************************************************)
\* a list that also holds the relay's port, an optional one
NECESSARY_PORTS_withRelayPort == <<5551, 8545, 5600, 5433, 50211, 8082, 7546>>

NECESSARY_PORTS == <<5551, 8545, 5600, 5433, 50211, 8082>>
OPTIONAL_PORTS == <<7546, 8080, 6379, 3000>>
LINE_WIDTH == 256

Finish == "Finish"
UnresolvableError == "UnresolvableError"

RELAY_HEDERA_NETWORK_MULTI ==
    "{\"network-node:50211\":\"0.0.3\",\"network-node-1:50211\":\"0.0.4\",\"network-node-2:50211\":\"0.0.5\",\"network-node-3:50211\":\"0.0.6\"}"

(***************************************************************************)
(* Optional values: `x ?? d`, `!x` and `x?.p` of the source act on these.  *)
(***************************************************************************)
\* an optional value is the empty sequence (undefined) or <<v>>
Undefined == <<>>
Some(v) == <<v>>
IsDefined(x) == Len(x) = 1
ValueOf(x) == x[1]
KV(k, v) == [key |-> k, value |-> v]

Range(s) == {s[i] : i \in 1..Len(s)}

(***************************************************************************)
(* path.join on already normalised segments.                               *)
(***************************************************************************)
RECURSIVE join(_)
join(parts) ==
    IF Len(parts) = 0 THEN "."
    ELSE IF Len(parts) = 1 THEN parts[1]
    ELSE parts[1] \o "/" \o join(Tail(parts))

\* `${b}` of a boolean
BoolToString(b) == IF b THEN "true" ELSE "false"

(***************************************************************************)
(* originalNodeConfiguration.json: the embedded base template.             *)
(***************************************************************************)
originalNodeConfiguration ==
    [bootsrapProperties |-> <<KV("ledger.id", "0x03"),
                               KV("contracts.chainId", "298")>>,
     turboNodeProperties |-> [dataPath |-> "./data", sources |-> "turbo-local-sources"],
     local |-> "debug-local",
     multiNodeProperties |-> "four-node-list"]

(***************************************************************************)
(* The packaged mirror-node application.yml (APPLICATION_YML_RELATIVE_PATH)*)
(* as a text: the document tree and the line width it is folded at.        *)
(***************************************************************************)
templateApplication ==
    [hedera |-> [mirror |->
        [importer |-> [dataPath |-> "/node/",
                       downloader |-> [sources |-> "default-sources",
                                       local |-> "default-local",
                                       bucketName |-> "hedera-streams"]],
         monitor |-> [nodes |-> "single-node-list", mirrorNode |-> "rest:5551"],
         grpc |-> "grpc-section"]]]

yamlDump(doc, width) == [lineWidth |-> width, doc |-> doc]
yamlLoad(text) == text.doc

\* a file of the working directory: absent (<<>>) or <<its content>>
NoFile == <<>>
File(content) == <<content>>
Exists(file) == Len(file) = 1
Content(file) == file[1]

templateApplicationYml == File(yamlDump(templateApplication, 80))

(***************************************************************************)
(* The Configuration Catalog: representative entries.  Image tags are      *)
(* always present, environment entries and node properties are optional.   *)
(***************************************************************************)
Catalog0 ==
    [n \in {"local", "mainnet", "testnet", "previewnet"} |->
        CASE n = "local" ->
               [imageTagConfiguration |-> <<KV("NETWORK_NODE_IMAGE_TAG", "0.49.7")>>,
                envConfiguration |-> Some(<<KV("RELAY_RATE_LIMIT_DISABLED", "false"),
                                            KV("RELAY_HEDERA_NETWORK", "{\"network-node:50211\":\"0.0.3\"}")>>),
                nodeConfiguration |-> Some([properties |-> <<KV("contracts.chainId", "298"),
                                                             KV("staking.periodMins", "1")>>])]
          [] n = "mainnet" ->
               [imageTagConfiguration |-> <<KV("NETWORK_NODE_IMAGE_TAG", "0.48.1"),
                                            KV("RELAY_HBAR_RATE_LIMIT_TINYBAR", "11000000000")>>,
                envConfiguration |-> Undefined,
                nodeConfiguration |-> Undefined]
          [] n = "testnet" ->
               [imageTagConfiguration |-> <<KV("RELAY_IMAGE_TAG", "0.47.0"),
                                            KV("APPLICATION_CONFIG_PATH", "/image/config")>>,
                envConfiguration |-> Some(<<KV("RELAY_IMAGE_TAG", "0.47.1"),
                                            KV("MIRROR_NODE_CONFIG_PATH", "/catalog/mirror"),
                                            KV("RELAY_HBAR_RATE_LIMIT_DURATION", "80000")>>),
                nodeConfiguration |-> Some([properties |-> <<>>])]
          [] n = "previewnet" ->
               [imageTagConfiguration |-> <<KV("NETWORK_NODE_IMAGE_TAG", "0.50.0")>>,
                envConfiguration |-> Some(<<KV("RELAY_CHAIN_ID", "0x129")>>),
                nodeConfiguration |-> Undefined]]

Networks == DOMAIN Catalog0 \cup {"custom"}

\* environment left by configDotenv before the state is constructed
Env0 == [k \in {"RELAY_RATE_LIMIT_DISABLED"} |-> "false"]

WorkDir == "/work"

(***************************************************************************)
(* process.env[k] = v, and the reading of a key that may be unset.         *)
(***************************************************************************)
setEnv(e, k, v) == [x \in DOMAIN e \cup {k} |-> IF x = k THEN v ELSE e[x]]
getEnv(e, k) == IF k \in DOMAIN e THEN e[k] ELSE "<undefined>"

\* list.forEach(variable => process.env[variable.key] = variable.value)
RECURSIVE exportAll(_, _)
exportAll(e, list) ==
    IF Len(list) = 0 THEN e
    ELSE exportAll(setEnv(e, Head(list).key, Head(list).value), Tail(list))

\* the three rate-limit assignments of configureEnvVariables
disableRelayLimits(e, relayLimitsDisabled) ==
    setEnv(setEnv(setEnv(e, "RELAY_HBAR_RATE_LIMIT_TINYBAR", "0"),
                  "RELAY_HBAR_RATE_LIMIT_DURATION", "0"),
           "RELAY_RATE_LIMIT_DISABLED", BoolToString(relayLimitsDisabled))

\* a version that forces the rate-limit variables before the catalog's
\* environment entries are exported
configureEnvVariables_limitsFirst(e, imageTagConfiguration, envConfiguration, limits) ==
    LET e1 == exportAll(e, imageTagConfiguration)
        e2 == IF ~limits THEN disableRelayLimits(e1, ~limits) ELSE e1 IN
    IF ~IsDefined(envConfiguration) THEN e1
    ELSE exportAll(e2, ValueOf(envConfiguration))

\* a version that exports the environment entries before the image tags
configureEnvVariables_envFirst(e, imageTagConfiguration, envConfiguration, limits) ==
    IF ~IsDefined(envConfiguration) THEN exportAll(e, imageTagConfiguration)
    ELSE LET e1 == exportAll(e, ValueOf(envConfiguration))
             e2 == exportAll(e1, imageTagConfiguration)
             relayLimitsDisabled == ~limits IN
         IF relayLimitsDisabled THEN disableRelayLimits(e2, relayLimitsDisabled)
         ELSE e2

\* InitState.configureEnvVariables: process.env after the call
configureEnvVariables(e, imageTagConfiguration, envConfiguration, limits) ==
    LET e1 == exportAll(e, imageTagConfiguration) IN
    IF ~IsDefined(envConfiguration) THEN e1
    ELSE LET e2 == exportAll(e1, ValueOf(envConfiguration))
             relayLimitsDisabled == ~limits IN
         IF relayLimitsDisabled THEN disableRelayLimits(e2, relayLimitsDisabled)
         ELSE e2

\* the four working-directory entries built in onStart
workDirConfiguration(workDir) ==
    <<KV("NETWORK_NODE_LOGS_ROOT_PATH", join(<<workDir, "network-logs", "node">>)),
      KV("APPLICATION_CONFIG_PATH",
         join(<<workDir, "compose-network", "network-node", "data", "config">>)),
      KV("MIRROR_NODE_CONFIG_PATH", workDir),
      KV("RECORD_PARSER_ROOT_PATH", join(<<workDir, "services", "record-parser">>))>>

\* a version that puts the working-directory entries in front of the
\* catalog's: workDirConfiguration.concat(envConfiguration ?? [])
appendWorkDirConfiguration_prepend(envConfiguration, workDir) ==
    workDirConfiguration(workDir)
        \o (IF IsDefined(envConfiguration) THEN ValueOf(envConfiguration) ELSE <<>>)

\* (configurationData.envConfiguration ?? []).concat(workDirConfiguration)
appendWorkDirConfiguration(envConfiguration, workDir) ==
    (IF IsDefined(envConfiguration) THEN ValueOf(envConfiguration) ELSE <<>>)
        \o workDirConfiguration(workDir)

(***************************************************************************)
(* bootstrap.properties                                                    *)
(***************************************************************************)
\* newProperties.concat(`${property.key}=${property.value}\n`) over a list
RECURSIVE appendProperties(_, _)
appendProperties(newProperties, list) ==
    IF Len(list) = 0 THEN newProperties
    ELSE appendProperties(newProperties \o Head(list).key \o "=" \o Head(list).value \o "\n",
                          Tail(list))

\* configurationData.nodeConfiguration?.properties
nodeProperties(nodeConfiguration) ==
    IF IsDefined(nodeConfiguration) THEN Some(ValueOf(nodeConfiguration).properties)
    ELSE Undefined

\* a version that opens the file for appending (flag 'a')
configureNodeProperties_append(file, nodeConfiguration) ==
    LET base == appendProperties("", originalNodeConfiguration.bootsrapProperties) IN
    IF ~IsDefined(nodeConfiguration) THEN file
    ELSE File((IF Exists(file) THEN Content(file) ELSE "")
              \o appendProperties(base, ValueOf(nodeConfiguration)))

\* InitState.configureNodeProperties: the file after the call, given the
\* file before it; nothing is written when nodeConfiguration is undefined
configureNodeProperties(file, nodeConfiguration) ==
    LET base == appendProperties("", originalNodeConfiguration.bootsrapProperties) IN
    IF ~IsDefined(nodeConfiguration) THEN file
    ELSE File(appendProperties(base, ValueOf(nodeConfiguration)))

(***************************************************************************)
(* application.yml                                                         *)
(***************************************************************************)
setDataPath(app, v) == [app EXCEPT !.hedera.mirror.importer.dataPath = v]
setSources(app, v) == [app EXCEPT !.hedera.mirror.importer.downloader.sources = v]
setLocal(app, v) == [app EXCEPT !.hedera.mirror.importer.downloader.local = v]
setMonitorNodes(app, v) == [app EXCEPT !.hedera.mirror.monitor.nodes = v]

\* a version whose multi-node block is not guarded by the flag
mirrorMultiNode_unguarded(multiNode) == TRUE

\* the guard of the multi-node block of configureMirrorNodeProperties
mirrorMultiNode(multiNode) == multiNode

\* a version whose debug block sits inside the turbo block
mutateApplication_debugInsideTurbo(application, options) ==
    LET turboMode == ~options.fullMode
        debugMode == options.enableDebug
        a1 == IF turboMode
              THEN setSources(setDataPath(application,
                                          originalNodeConfiguration.turboNodeProperties.dataPath),
                              originalNodeConfiguration.turboNodeProperties.sources)
              ELSE application
        a2 == IF turboMode /\ debugMode
              THEN setLocal(a1, originalNodeConfiguration.local) ELSE a1 IN
    IF mirrorMultiNode(options.multiNode)
    THEN setMonitorNodes(a2, originalNodeConfiguration.multiNodeProperties)
    ELSE a2

\* the document configureMirrorNodeProperties writes back, from the one read
mutateApplication(application, options) ==
    LET turboMode == ~options.fullMode
        debugMode == options.enableDebug
        a1 == IF turboMode
              THEN setSources(setDataPath(application,
                                          originalNodeConfiguration.turboNodeProperties.dataPath),
                              originalNodeConfiguration.turboNodeProperties.sources)
              ELSE application
        a2 == IF debugMode THEN setLocal(a1, originalNodeConfiguration.local) ELSE a1 IN
    IF mirrorMultiNode(options.multiNode)
    THEN setMonitorNodes(a2, originalNodeConfiguration.multiNodeProperties)
    ELSE a2

\* process.env after configureMirrorNodeProperties' multi-node block
mirrorEnv(e, options) ==
    IF mirrorMultiNode(options.multiNode)
    THEN setEnv(e, "RELAY_HEDERA_NETWORK", RELAY_HEDERA_NETWORK_MULTI)
    ELSE e

(***************************************************************************)
(* Collaborators.                                                          *)
(***************************************************************************)
\* ConfigurationData.getSelectedConfigurationData: the entry of a known
\* network; for an unknown one the lookup fails, by throwing or by
\* returning nothing
getSelectedConfigurationData(cat, network) ==
    IF network \in DOMAIN cat THEN {"entry"} ELSE {"throws", "undefined"}

\* the argument of the port scan
scannedPorts == NECESSARY_PORTS \o OPTIONAL_PORTS

\* what a port scan can report
PortReports ==
    {S \in SUBSET Range(scannedPorts) : Cardinality(S) <= MaxPortsInUse}

\* DockerService.isPortInUse: a necessary port in use is fatal, an optional
\* one is only logged
portConflictIsFatal(inUse) == inUse \cap Range(NECESSARY_PORTS) # {}

\* FileSystemUtils.copyPaths on the three path pairs: the destination gets
\* the packaged files; a file the package does not hold is left as it was
copyPaths(tree, packagedBootstrap) ==
    [tree EXCEPT !.configDir = TRUE,
                 !.bootstrap = IF Exists(packagedBootstrap) THEN packagedBootstrap ELSE @,
                 !.applicationYml = templateApplicationYml,
                 !.recordParser = TRUE]

(***************************************************************************)
(* onStart: the order of its statements and its readiness gate.            *)
(***************************************************************************)
\* an order that scans the ports only after the working directory is prepared
onStartOrder_portsLate ==
    <<"lookup", "isCorrectDockerComposeVersion", "checkDocker", "checkDockerResources",
      "gate", "createEphemeralDirectories", "copyPaths", "isPortInUse",
      "configureEnvVariables", "configureNodeProperties",
      "configureMirrorNodeProperties", "updateFinish">>

\* an order that notifies the observer before the mirror-node document is
\* rewritten
onStartOrder_finishEarly ==
    <<"lookup", "isCorrectDockerComposeVersion", "checkDocker", "checkDockerResources",
      "gate", "isPortInUse", "createEphemeralDirectories", "copyPaths",
      "configureEnvVariables", "configureNodeProperties", "updateFinish",
      "configureMirrorNodeProperties">>

\* an order that scans the ports before the readiness gate
onStartOrder_portsBeforeGate ==
    <<"lookup", "isCorrectDockerComposeVersion", "checkDocker", "checkDockerResources",
      "isPortInUse", "gate", "createEphemeralDirectories", "copyPaths",
      "configureEnvVariables", "configureNodeProperties",
      "configureMirrorNodeProperties", "updateFinish">>

\* an order that copies the packaged files after bootstrap.properties is
\* generated
onStartOrder_copyLate ==
    <<"lookup", "isCorrectDockerComposeVersion", "checkDocker", "checkDockerResources",
      "gate", "isPortInUse", "createEphemeralDirectories", "configureEnvVariables",
      "configureNodeProperties", "copyPaths", "configureMirrorNodeProperties",
      "updateFinish">>

onStartOrder ==
    <<"lookup", "isCorrectDockerComposeVersion", "checkDocker", "checkDockerResources",
      "gate", "isPortInUse", "createEphemeralDirectories", "copyPaths",
      "configureEnvVariables", "configureNodeProperties",
      "configureMirrorNodeProperties", "updateFinish">>

\* the statement after `step`; onStart returns after the last one
after(step) ==
    LET i == CHOOSE j \in 1..Len(onStartOrder) : onStartOrder[j] = step IN
    IF i = Len(onStartOrder) THEN "returned" ELSE onStartOrder[i + 1]

\* a gate that forgets the resources check
readinessOk_withoutResources(versionOk, dockerStarted, enoughResources) ==
    versionOk /\ dockerStarted

\* isCorrectDockerComposeVersion && isDockerStarted && dockerHasEnoughResources
readinessOk(versionOk, dockerStarted, enoughResources) ==
    versionOk /\ dockerStarted /\ enoughResources

NoChecks ==
    [isCorrectDockerComposeVersion |-> FALSE, isDockerStarted |-> FALSE,
     dockerHasEnoughResources |-> FALSE]

(***************************************************************************)
(* Initial states: the options of the run, and what the working directory  *)
(* and the package hold before the first activation.                       *)
(***************************************************************************)
Init ==
    /\ cliOptions \in [network : Networks, multiNode : BOOLEAN, fullMode : BOOLEAN,
                       enableDebug : BOOLEAN, limits : BOOLEAN, workDir : {WorkDir}]
    /\ catalog = [n \in DOMAIN Catalog0 \cap {cliOptions.network} |-> Catalog0[n]]
    /\ configurationData = "none"
    /\ pc = "lookup"
    /\ checks = NoChecks
    /\ portsInUse = {}
    /\ env = Env0
    /\ srcBootstrap \in {NoFile, File("ledger.id=0x03\n")}
    /\ fs \in [skeleton : {FALSE}, configDir : {FALSE}, recordParser : {FALSE},
               bootstrap : {NoFile, File("stale.key=1\n")},
               applicationYml : {NoFile}]
    /\ events = <<>>
    /\ log = <<>>
    /\ failure = "none"
    /\ run = 1
    /\ envAtStart = env
    /\ fsAtStart = fs
    /\ prevBootstrap = Undefined

(***************************************************************************)
(* The steps of one activation.                                            *)
(***************************************************************************)
\* the promise of onStart rejects: an exception leaves it, no event is sent
Reject(why) ==
    /\ pc' = "rejected"
    /\ failure' = why

\* line 98
Lookup ==
    /\ pc = "lookup"
    /\ \E r \in getSelectedConfigurationData(catalog, cliOptions.network) :
         IF r = "throws"
         THEN /\ Reject("getSelectedConfigurationData")
              /\ UNCHANGED configurationData
         ELSE /\ configurationData' = r
              /\ pc' = after("lookup")
              /\ UNCHANGED failure
    /\ log' = Append(log, "getSelectedConfigurationData")
    /\ UNCHANGED <<cliOptions, catalog, checks, portsInUse, env, fs, srcBootstrap,
                   events, run, envAtStart, fsAtStart, prevBootstrap>>

\* line 101
IsCorrectDockerComposeVersion ==
    /\ pc = "isCorrectDockerComposeVersion"
    /\ \E r \in BOOLEAN : checks' = [checks EXCEPT !.isCorrectDockerComposeVersion = r]
    /\ log' = Append(log, "isCorrectDockerComposeVersion")
    /\ pc' = after("isCorrectDockerComposeVersion")
    /\ UNCHANGED <<cliOptions, catalog, configurationData, portsInUse, env, fs,
                   srcBootstrap, events, failure, run, envAtStart, fsAtStart,
                   prevBootstrap>>

\* a second check that is skipped once the first one has failed
CheckDocker_shortCircuit ==
    /\ pc = "checkDocker"
    /\ IF checks.isCorrectDockerComposeVersion
       THEN /\ \E r \in BOOLEAN : checks' = [checks EXCEPT !.isDockerStarted = r]
            /\ log' = Append(log, "checkDocker")
       ELSE UNCHANGED <<checks, log>>
    /\ pc' = after("checkDocker")
    /\ UNCHANGED <<cliOptions, catalog, configurationData, portsInUse, env, fs,
                   srcBootstrap, events, failure, run, envAtStart, fsAtStart,
                   prevBootstrap>>

\* line 102
CheckDocker ==
    /\ pc = "checkDocker"
    /\ \E r \in BOOLEAN : checks' = [checks EXCEPT !.isDockerStarted = r]
    /\ log' = Append(log, "checkDocker")
    /\ pc' = after("checkDocker")
    /\ UNCHANGED <<cliOptions, catalog, configurationData, portsInUse, env, fs,
                   srcBootstrap, events, failure, run, envAtStart, fsAtStart,
                   prevBootstrap>>

\* line 104
CheckDockerResources ==
    /\ pc = "checkDockerResources"
    /\ \E r \in BOOLEAN : checks' = [checks EXCEPT !.dockerHasEnoughResources = r]
    /\ log' = Append(log, "checkDockerResources")
    /\ pc' = after("checkDockerResources")
    /\ UNCHANGED <<cliOptions, catalog, configurationData, portsInUse, env, fs,
                   srcBootstrap, events, failure, run, envAtStart, fsAtStart,
                   prevBootstrap>>

\* a gate without its `return`: the error is reported and onStart goes on
Gate_noReturn ==
    /\ pc = "gate"
    /\ IF ~readinessOk(checks.isCorrectDockerComposeVersion, checks.isDockerStarted,
                       checks.dockerHasEnoughResources)
       THEN /\ events' = Append(events, UnresolvableError)
            /\ log' = Append(log, "update")
       ELSE UNCHANGED <<events, log>>
    /\ pc' = after("gate")
    /\ UNCHANGED <<cliOptions, catalog, configurationData, checks, portsInUse, env, fs,
                   srcBootstrap, failure, run, envAtStart, fsAtStart, prevBootstrap>>

\* lines 106-109
Gate ==
    /\ pc = "gate"
    /\ IF ~readinessOk(checks.isCorrectDockerComposeVersion, checks.isDockerStarted,
                       checks.dockerHasEnoughResources)
       THEN /\ events' = Append(events, UnresolvableError)
            /\ log' = Append(log, "update")
            /\ pc' = "returned"
       ELSE /\ pc' = after("gate")
            /\ UNCHANGED <<events, log>>
    /\ UNCHANGED <<cliOptions, catalog, configurationData, checks, portsInUse, env, fs,
                   srcBootstrap, failure, run, envAtStart, fsAtStart, prevBootstrap>>

\* line 111: the scan's result is not used by onStart; a fatal conflict ends
\* the process inside the collaborator
IsPortInUse ==
    /\ pc = "isPortInUse"
    /\ \E inUse \in PortReports :
         /\ portsInUse' = inUse
         /\ IF portConflictIsFatal(inUse)
            THEN /\ pc' = "exited"
                 /\ failure' = "isPortInUse"
            ELSE /\ pc' = after("isPortInUse")
                 /\ UNCHANGED failure
    /\ log' = Append(log, "isPortInUse")
    /\ UNCHANGED <<cliOptions, catalog, configurationData, checks, env, fs,
                   srcBootstrap, events, run, envAtStart, fsAtStart, prevBootstrap>>

\* line 142 (prepareWorkDirectory)
CreateEphemeralDirectories ==
    /\ pc = "createEphemeralDirectories"
    /\ \E ok \in BOOLEAN :
         IF ok
         THEN /\ fs' = [fs EXCEPT !.skeleton = TRUE]
              /\ pc' = after("createEphemeralDirectories")
              /\ UNCHANGED failure
         ELSE /\ Reject("createEphemeralDirectories")
              /\ UNCHANGED fs
    /\ log' = Append(log, "createEphemeralDirectories")
    /\ UNCHANGED <<cliOptions, catalog, configurationData, checks, portsInUse, env,
                   srcBootstrap, events, run, envAtStart, fsAtStart, prevBootstrap>>

\* lines 143-152 (prepareWorkDirectory)
CopyPaths ==
    /\ pc = "copyPaths"
    /\ \E ok \in BOOLEAN :
         IF ok
         THEN /\ fs' = copyPaths(fs, srcBootstrap)
              /\ pc' = after("copyPaths")
              /\ UNCHANGED failure
         ELSE /\ Reject("copyPaths")
              /\ UNCHANGED fs
    /\ log' = Append(log, "copyPaths")
    /\ UNCHANGED <<cliOptions, catalog, configurationData, checks, portsInUse, env,
                   srcBootstrap, events, run, envAtStart, fsAtStart, prevBootstrap>>

\* lines 116-124: the working-directory entries are appended to the entry's
\* environment list (in place, on the catalog's object), then exported;
\* without an entry, line 122 throws a TypeError
ConfigureEnvVariables ==
    /\ pc = "configureEnvVariables"
    /\ IF configurationData = "undefined"
       THEN /\ Reject("TypeError")
            /\ UNCHANGED <<catalog, env, log>>
       ELSE LET n == cliOptions.network
                envConfiguration ==
                    Some(appendWorkDirConfiguration(catalog[n].envConfiguration,
                                                    cliOptions.workDir)) IN
            /\ catalog' = [catalog EXCEPT ![n].envConfiguration = envConfiguration]
            /\ env' = configureEnvVariables(env, catalog[n].imageTagConfiguration,
                                            envConfiguration, cliOptions.limits)
            /\ log' = Append(log, "configureEnvVariables")
            /\ pc' = after("configureEnvVariables")
            /\ UNCHANGED failure
    /\ UNCHANGED <<cliOptions, configurationData, checks, portsInUse, fs, srcBootstrap,
                   events, run, envAtStart, fsAtStart, prevBootstrap>>

\* line 125 and lines 190-210: writeFileSync is reached only with node
\* properties, and it may throw
ConfigureNodeProperties ==
    /\ pc = "configureNodeProperties"
    /\ LET nodeConfiguration ==
               nodeProperties(catalog[cliOptions.network].nodeConfiguration) IN
       \E ok \in BOOLEAN :
         IF IsDefined(nodeConfiguration) /\ ~ok
         THEN /\ Reject("writeFileSync bootstrap.properties")
              /\ UNCHANGED fs
              /\ log' = Append(log, "configureNodeProperties")
         ELSE /\ fs' = [fs EXCEPT !.bootstrap = configureNodeProperties(@, nodeConfiguration)]
              /\ log' = IF IsDefined(nodeConfiguration)
                        THEN log \o <<"configureNodeProperties",
                                      "writeFileSync bootstrap.properties">>
                        ELSE Append(log, "configureNodeProperties")
              /\ pc' = after("configureNodeProperties")
              /\ UNCHANGED failure
    /\ UNCHANGED <<cliOptions, catalog, configurationData, checks, portsInUse, env,
                   srcBootstrap, events, run, envAtStart, fsAtStart, prevBootstrap>>

\* line 126 and lines 218-244: readFileSync and writeFileSync may throw; the
\* relay variable is assigned before the write
ConfigureMirrorNodeProperties ==
    /\ pc = "configureMirrorNodeProperties"
    /\ \E io \in {"ok", "readFileSync", "writeFileSync"} :
         IF io = "readFileSync" \/ ~Exists(fs.applicationYml)
         THEN /\ Reject("readFileSync application.yml")
              /\ log' = Append(log, "configureMirrorNodeProperties")
              /\ UNCHANGED <<env, fs>>
         ELSE LET application == yamlLoad(Content(fs.applicationYml)) IN
              /\ env' = mirrorEnv(env, cliOptions)
              /\ IF io = "writeFileSync"
                 THEN /\ Reject("writeFileSync application.yml")
                      /\ log' = Append(log, "configureMirrorNodeProperties")
                      /\ UNCHANGED fs
                 ELSE /\ fs' = [fs EXCEPT !.applicationYml =
                                  File(yamlDump(mutateApplication(application, cliOptions),
                                                LINE_WIDTH))]
                      /\ log' = log \o <<"configureMirrorNodeProperties",
                                         "writeFileSync application.yml">>
                      /\ pc' = after("configureMirrorNodeProperties")
                      /\ UNCHANGED failure
    /\ UNCHANGED <<cliOptions, catalog, configurationData, checks, portsInUse,
                   srcBootstrap, events, run, envAtStart, fsAtStart, prevBootstrap>>

\* line 128
UpdateFinish ==
    /\ pc = "updateFinish"
    /\ events' = Append(events, Finish)
    /\ log' = Append(log, "update")
    /\ pc' = after("updateFinish")
    /\ UNCHANGED <<cliOptions, catalog, configurationData, checks, portsInUse, env, fs,
                   srcBootstrap, failure, run, envAtStart, fsAtStart, prevBootstrap>>

\* the phase is run again in the same process, with the same options, on
\* the working directory, environment and catalog the last activation left
Restart ==
    /\ pc = "returned"
    /\ run < MaxRuns
    /\ run' = run + 1
    /\ pc' = "lookup"
    /\ configurationData' = "none"
    /\ checks' = NoChecks
    /\ portsInUse' = {}
    /\ events' = <<>>
    /\ log' = <<>>
    /\ envAtStart' = env
    /\ fsAtStart' = fs
    /\ prevBootstrap' = IF events = <<Finish>> THEN Some(fs.bootstrap) ELSE Undefined
    /\ UNCHANGED <<cliOptions, catalog, env, fs, srcBootstrap, failure>>

Next ==
    \/ Lookup
    \/ IsCorrectDockerComposeVersion
    \/ CheckDocker
    \/ CheckDockerResources
    \/ Gate
    \/ IsPortInUse
    \/ CreateEphemeralDirectories
    \/ CopyPaths
    \/ ConfigureEnvVariables
    \/ ConfigureNodeProperties
    \/ ConfigureMirrorNodeProperties
    \/ UpdateFinish
    \/ Restart

Spec == Init /\ [][Next]_vars

(***************************************************************************)
(* Vocabulary of the properties.                                           *)
(***************************************************************************)
Called(name) == name \in Range(log)
Terminated == pc \in {"returned", "rejected", "exited"}
ChecksResolved == Called("checkDockerResources")
AllChecksTrue ==
    /\ ChecksResolved
    /\ checks.isCorrectDockerComposeVersion
    /\ checks.isDockerStarted
    /\ checks.dockerHasEnoughResources
SomeCheckFalse ==
    /\ ChecksResolved
    /\ \/ ~checks.isCorrectDockerComposeVersion
       \/ ~checks.isDockerStarted
       \/ ~checks.dockerHasEnoughResources
Succeeded == events = <<Finish>>
Untouched == fs = fsAtStart /\ env = envAtStart
IOFailures ==
    {"createEphemeralDirectories", "copyPaths", "writeFileSync bootstrap.properties",
     "readFileSync application.yml", "writeFileSync application.yml"}
EntryOf0 == Catalog0[cliOptions.network]
DirectoryPrepared == fs.skeleton /\ fs.configDir /\ fs.recordParser
ApplicationRewritten ==
    /\ Called("writeFileSync application.yml")
    /\ Exists(fs.applicationYml)
    /\ Content(fs.applicationYml).lineWidth = LINE_WIDTH
FullCallSequence ==
    <<"getSelectedConfigurationData", "isCorrectDockerComposeVersion", "checkDocker",
      "checkDockerResources", "isPortInUse", "createEphemeralDirectories", "copyPaths",
      "configureEnvVariables", "configureNodeProperties">>

(***************************************************************************)
(* C1: whenever the three readiness checks are true (the network is known, *)
(* no necessary port is taken and no I/O call fails), onStart ends having  *)
(* created the directories, copied the three path pairs, written           *)
(* bootstrap.properties and rewritten application.yml, with exactly one    *)
(* Finish event, for every combination of flags and every catalog entry.   *)
(***************************************************************************)
C1_ReadyMeansFullPreparation ==
    (Terminated /\ AllChecksTrue /\ configurationData = "entry" /\ failure = "none")
        => /\ Succeeded
           /\ DirectoryPrepared
           /\ Called("writeFileSync bootstrap.properties")
           /\ ApplicationRewritten

(***************************************************************************)
(* C2: once the three checks are resolved and one of them is false, the    *)
(* working directory and the environment are what they were when onStart   *)
(* began, onStart goes no further than its gate, and when it has returned  *)
(* it has emitted UnresolvableError and nothing else.                      *)
(***************************************************************************)
C2_NotReadyChangesNothing ==
    SomeCheckFalse
        => /\ Untouched
           /\ pc \in {"gate", "returned"}
           /\ (pc = "returned" => events = <<UnresolvableError>>)
           /\ (pc = "gate" => events = <<>>)

\* a second activation, after a successful one, whose resources check fails
C2_Witness ==
    /\ run = 2
    /\ fsAtStart.skeleton
    /\ pc = "returned"
    /\ checks.isCorrectDockerComposeVersion
    /\ checks.isDockerStarted
    /\ ~checks.dockerHasEnoughResources
    /\ events = <<UnresolvableError>>

(***************************************************************************)
(* C3: an activation that ends on a hard I/O failure (while preparing the  *)
(* working directory, writing bootstrap.properties, or reading or writing  *)
(* application.yml) has delivered UnresolvableError to the observer.       *)
(***************************************************************************)
C3_IOFailureEmitsUnresolvableError ==
    (Terminated /\ failure \in IOFailures) => events = <<UnresolvableError>>

(***************************************************************************)
(* C4: with a network the catalog does not know, the activation ends with  *)
(* UnresolvableError delivered and the working directory untouched.        *)
(***************************************************************************)
C4_UnknownNetworkFailsFast ==
    (Terminated /\ cliOptions.network \notin DOMAIN Catalog0)
        => /\ events = <<UnresolvableError>>
           /\ fs = fsAtStart

C6_OptionalPortConflictIsAdvisory ==
    (/\ Called("isPortInUse")
     /\ portsInUse # {}
     /\ portsInUse \subseteq {7546, 8080, 6379, 3000})
        => /\ pc # "exited"
           /\ (Terminated /\ configurationData = "entry" /\ failure \notin IOFailures)
                => /\ Succeeded
                   /\ AllChecksTrue
                   /\ DirectoryPrepared
                   /\ ApplicationRewritten
                   /\ SelectSeq(log, LAMBDA c : c \in Range(FullCallSequence))
                        = FullCallSequence

C6_Witness ==
    /\ portsInUse = {7546}
    /\ pc = "returned"
    /\ Succeeded
    /\ DirectoryPrepared

(***************************************************************************)
(* C7: after a successful activation with limits off, the three rate-limit *)
(* variables of the process environment have their disabling values.       *)
(***************************************************************************)
C7_LimitsOffForcesRateLimitVariables ==
    (Succeeded /\ ~cliOptions.limits)
        => /\ getEnv(env, "RELAY_HBAR_RATE_LIMIT_TINYBAR") = "0"
           /\ getEnv(env, "RELAY_HBAR_RATE_LIMIT_DURATION") = "0"
           /\ getEnv(env, "RELAY_RATE_LIMIT_DISABLED") = "true"

\* an entry without environment entries whose image tags give one of the keys
C7_Witness ==
    /\ Succeeded
    /\ ~cliOptions.limits
    /\ ~IsDefined(EntryOf0.envConfiguration)
    /\ \E i \in 1..Len(EntryOf0.imageTagConfiguration) :
         EntryOf0.imageTagConfiguration[i].key = "RELAY_HBAR_RATE_LIMIT_TINYBAR"

(***************************************************************************)
(* C8: after a successful activation, RELAY_HEDERA_NETWORK holds the fixed *)
(* four-node mapping and the document's monitor node list is the           *)
(* multi-node one exactly when multiNode is set.                           *)
(***************************************************************************)
C8_RelayMappingIffMultiNode ==
    Succeeded
        => LET application == yamlLoad(Content(fs.applicationYml)) IN
           /\ (getEnv(env, "RELAY_HEDERA_NETWORK") = RELAY_HEDERA_NETWORK_MULTI)
                <=> cliOptions.multiNode
           /\ (application.hedera.mirror.monitor.nodes
                 = originalNodeConfiguration.multiNodeProperties)
                <=> cliOptions.multiNode

\* multi-node, on an entry that exports its own RELAY_HEDERA_NETWORK
C8_Witness ==
    /\ Succeeded
    /\ cliOptions.multiNode
    /\ \E i \in 1..Len(ValueOf(catalog[cliOptions.network].envConfiguration)) :
         ValueOf(catalog[cliOptions.network].envConfiguration)[i].key = "RELAY_HEDERA_NETWORK"

(***************************************************************************)
(* C9: after a successful activation, bootstrap.properties is exactly the  *)
(* base template's lines followed by the entry's override lines, and       *)
(* exactly the base template's lines when the entry has no overrides.      *)
(***************************************************************************)
C9_BootstrapIsTemplateThenOverrides ==
    Succeeded
        => LET overrides == nodeProperties(EntryOf0.nodeConfiguration)
               base == appendProperties("", originalNodeConfiguration.bootsrapProperties) IN
           fs.bootstrap = File(appendProperties(base, IF IsDefined(overrides)
                                                      THEN ValueOf(overrides) ELSE <<>>))

(***************************************************************************)
(* C10: a successful activation that follows a successful activation       *)
(* leaves the bootstrap.properties the earlier one left.                   *)
(***************************************************************************)
C10_BootstrapIsRegeneratedIdentically ==
    (Succeeded /\ IsDefined(prevBootstrap)) => fs.bootstrap = ValueOf(prevBootstrap)

\* the second write, over a stale file the package does not replace
C10_Witness ==
    /\ run = 2
    /\ Succeeded
    /\ IsDefined(prevBootstrap)
    /\ Called("writeFileSync bootstrap.properties")
    /\ ~Exists(srcBootstrap)
    /\ catalog[cliOptions.network].envConfiguration # EntryOf0.envConfiguration

(***************************************************************************)
(* C11: when a terminal event has been delivered, onStart has returned and *)
(* the delivery was its last call; the three checks are resolved; on the   *)
(* Finish path the directory is prepared, the environment exported,        *)
(* configureNodeProperties has run and application.yml is rewritten; and   *)
(* from then on no step changes the environment, the working directory or  *)
(* the catalog.                                                            *)
(***************************************************************************)
C11_EffectsCommittedBeforeEvent ==
    /\ [](events # <<>>
            => /\ pc = "returned"
               /\ log[Len(log)] = "update"
               /\ ChecksResolved
               /\ Succeeded
                    => /\ DirectoryPrepared
                       /\ Called("configureEnvVariables")
                       /\ Called("configureNodeProperties")
                       /\ ApplicationRewritten)
    /\ [][events # <<>> => (env' = env /\ fs' = fs /\ catalog' = catalog)]_vars

\* Finish delivered in multi-node mode, the relay variable already exported
C11_Witness ==
    /\ Succeeded
    /\ pc = "returned"
    /\ cliOptions.multiNode
    /\ getEnv(env, "RELAY_HEDERA_NETWORK") = RELAY_HEDERA_NETWORK_MULTI
    /\ Content(fs.applicationYml).lineWidth = LINE_WIDTH

(***************************************************************************)
(* C12: one activation calls observer.update at most once: the events      *)
(* delivered are none, one Finish or one UnresolvableError.                *)
(***************************************************************************)
C12_AtMostOneEvent ==
    /\ Len(events) <= 1
    /\ Len(SelectSeq(log, LAMBDA c : c = "update")) = Len(events)
    /\ events \in {<<>>, <<Finish>>, <<UnresolvableError>>}

\* the only failed check is the first one
C12_Witness ==
    /\ pc = "returned"
    /\ ~checks.isCorrectDockerComposeVersion
    /\ checks.isDockerStarted
    /\ checks.dockerHasEnoughResources
    /\ events = <<UnresolvableError>>

ReadinessCalls == <<"isCorrectDockerComposeVersion", "checkDocker", "checkDockerResources">>
ReadinessCalled == SelectSeq(log, LAMBDA c : c \in Range(ReadinessCalls))

(***************************************************************************)
(* C13: the readiness checks are called in the order compose version,      *)
(* engine running, resources; once the lookup has returned and onStart is  *)
(* past them, all three have been called whatever the earlier ones         *)
(* returned; and UnresolvableError is delivered only with all three        *)
(* resolved.                                                               *)
(***************************************************************************)
C13_AllChecksRunInOrder ==
    /\ Len(ReadinessCalled) <= Len(ReadinessCalls)
    /\ ReadinessCalled = SubSeq(ReadinessCalls, 1, Len(ReadinessCalled))
    /\ (/\ pc \notin {"lookup"} \cup Range(ReadinessCalls)
        /\ failure # "getSelectedConfigurationData")
          => ReadinessCalled = ReadinessCalls
    /\ events # <<>> => ReadinessCalled = ReadinessCalls

\* the first check failed, the other two were still called and passed
C13_Witness ==
    /\ pc = "gate"
    /\ ReadinessCalled = ReadinessCalls
    /\ ~checks.isCorrectDockerComposeVersion
    /\ checks.isDockerStarted
    /\ checks.dockerHasEnoughResources

(***************************************************************************)
(* C14: after a successful activation the four working-directory           *)
(* variables hold the paths under cliOptions.workDir, whatever the         *)
(* catalog's image tags or environment entries give for the same keys.     *)
(***************************************************************************)
C14_WorkDirVariablesWin ==
    Succeeded
        => /\ getEnv(env, "NETWORK_NODE_LOGS_ROOT_PATH") = "/work/network-logs/node"
           /\ getEnv(env, "APPLICATION_CONFIG_PATH")
                = "/work/compose-network/network-node/data/config"
           /\ getEnv(env, "MIRROR_NODE_CONFIG_PATH") = cliOptions.workDir
           /\ getEnv(env, "RECORD_PARSER_ROOT_PATH") = "/work/services/record-parser"

\* an entry whose image tags and environment entries both give such a key
C14_Witness ==
    /\ Succeeded
    /\ \E i \in 1..Len(EntryOf0.imageTagConfiguration) :
         EntryOf0.imageTagConfiguration[i].key = "APPLICATION_CONFIG_PATH"
    /\ IsDefined(EntryOf0.envConfiguration)
    /\ \E i \in 1..Len(ValueOf(EntryOf0.envConfiguration)) :
         ValueOf(EntryOf0.envConfiguration)[i] = KV("MIRROR_NODE_CONFIG_PATH", "/catalog/mirror")

(***************************************************************************)
(* C15: after a successful activation the rewritten document is the        *)
(* template that was read with importer.dataPath and downloader.sources    *)
(* replaced iff fullMode is off, downloader.local replaced iff enableDebug *)
(* is on and monitor.nodes replaced iff multiNode is on, each flag on its  *)
(* own; every other key is as read, and with fullMode on, debug off and    *)
(* single node the document is the one read.                               *)
(***************************************************************************)
C15_MirrorMutationsAreIndependent ==
    Succeeded
        => LET read == templateApplication
               written == yamlLoad(Content(fs.applicationYml))
               importer == written.hedera.mirror.importer
               importer0 == read.hedera.mirror.importer IN
           /\ written =
                [read EXCEPT
                   !.hedera.mirror.importer.dataPath =
                       IF cliOptions.fullMode THEN @
                       ELSE originalNodeConfiguration.turboNodeProperties.dataPath,
                   !.hedera.mirror.importer.downloader.sources =
                       IF cliOptions.fullMode THEN @
                       ELSE originalNodeConfiguration.turboNodeProperties.sources,
                   !.hedera.mirror.importer.downloader.local =
                       IF cliOptions.enableDebug THEN originalNodeConfiguration.local ELSE @,
                   !.hedera.mirror.monitor.nodes =
                       IF cliOptions.multiNode
                       THEN originalNodeConfiguration.multiNodeProperties ELSE @]
           /\ (importer.dataPath # importer0.dataPath) <=> ~cliOptions.fullMode
           /\ (importer.downloader.sources # importer0.downloader.sources)
                <=> ~cliOptions.fullMode
           /\ (importer.downloader.local # importer0.downloader.local)
                <=> cliOptions.enableDebug
           /\ (written.hedera.mirror.monitor.nodes # read.hedera.mirror.monitor.nodes)
                <=> cliOptions.multiNode
           /\ (cliOptions.fullMode /\ ~cliOptions.enableDebug /\ ~cliOptions.multiNode)
                => written = read

\* full mode with debug on: only the debug mutation applies
C15_Witness ==
    /\ Succeeded
    /\ cliOptions.fullMode
    /\ cliOptions.enableDebug
    /\ ~cliOptions.multiNode
    /\ yamlLoad(Content(fs.applicationYml)).hedera.mirror.importer.downloader.local
         = originalNodeConfiguration.local

(***************************************************************************)
(* C16: the port scan is called only after the three readiness checks have *)
(* resolved true, never when one of them is false, and as long as it has   *)
(* not been called the working directory and the environment are untouched.*)
(***************************************************************************)
C16_PortScanBetweenGateAndMutation ==
    /\ Called("isPortInUse")
         => /\ ReadinessCalled = ReadinessCalls
            /\ checks.isCorrectDockerComposeVersion
            /\ checks.isDockerStarted
            /\ checks.dockerHasEnoughResources
            /\ log[Len(ReadinessCalls) + 2] = "isPortInUse"
    /\ ~Called("isPortInUse") => Untouched
    /\ SomeCheckFalse => ~Called("isPortInUse")
    /\ pc = "isPortInUse" => (AllChecksTrue /\ Untouched)

\* the scan has returned and the first mutation is about to happen
C16_Witness ==
    /\ pc = "createEphemeralDirectories"
    /\ Called("isPortInUse")
    /\ portsInUse = {3000}
    /\ Untouched
    /\ run = 2

\* the writes of process.env an activation makes, by source, in the order
\* image tags, catalog environment entries, working-directory entries,
\* rate-limit overrides, relay network
ExpectedEnvWrites ==
    EntryOf0.imageTagConfiguration
    \o (IF IsDefined(EntryOf0.envConfiguration)
        THEN ValueOf(EntryOf0.envConfiguration) ELSE <<>>)
    \o <<KV("NETWORK_NODE_LOGS_ROOT_PATH", "/work/network-logs/node"),
         KV("APPLICATION_CONFIG_PATH", "/work/compose-network/network-node/data/config"),
         KV("MIRROR_NODE_CONFIG_PATH", "/work"),
         KV("RECORD_PARSER_ROOT_PATH", "/work/services/record-parser")>>
    \o (IF cliOptions.limits THEN <<>>
        ELSE <<KV("RELAY_HBAR_RATE_LIMIT_TINYBAR", "0"),
               KV("RELAY_HBAR_RATE_LIMIT_DURATION", "0"),
               KV("RELAY_RATE_LIMIT_DISABLED", "true")>>)
    \o (IF cliOptions.multiNode
        THEN <<KV("RELAY_HEDERA_NETWORK", RELAY_HEDERA_NETWORK_MULTI)>> ELSE <<>>)
WritersOf(k) == {i \in 1..Len(ExpectedEnvWrites) : ExpectedEnvWrites[i].key = k}
LastWriter(k) == CHOOSE i \in WritersOf(k) : \A j \in WritersOf(k) : j <= i

(***************************************************************************)
(* C17: after a successful activation every variable of the process        *)
(* environment holds the value of its last writer in the order image tags, *)
(* catalog environment entries, working-directory entries, rate-limit      *)
(* overrides, RELAY_HEDERA_NETWORK, and a variable none of them writes is  *)
(* as it was; so in multi-node mode the catalog's RELAY_HEDERA_NETWORK is  *)
(* overridden, and an environment entry overrides an image tag of the same *)
(* key.                                                                    *)
(***************************************************************************)
C17_LastWriterWins ==
    Succeeded
        => /\ DOMAIN env
                = DOMAIN envAtStart \cup {ExpectedEnvWrites[i].key : i \in 1..Len(ExpectedEnvWrites)}
           /\ \A k \in DOMAIN env :
                env[k] = IF WritersOf(k) = {} THEN envAtStart[k]
                         ELSE ExpectedEnvWrites[LastWriter(k)].value
           /\ cliOptions.multiNode
                => getEnv(env, "RELAY_HEDERA_NETWORK") = RELAY_HEDERA_NETWORK_MULTI
           /\ cliOptions.network = "testnet" => getEnv(env, "RELAY_IMAGE_TAG") = "0.47.1"

\* an image tag and an environment entry of the same key, limits off
C17_Witness ==
    /\ Succeeded
    /\ cliOptions.network = "testnet"
    /\ ~cliOptions.limits
    /\ Cardinality(WritersOf("RELAY_IMAGE_TAG")) = 2
    /\ Cardinality(WritersOf("RELAY_HBAR_RATE_LIMIT_DURATION")) = 2
    /\ env["RELAY_HBAR_RATE_LIMIT_DURATION"] = "0"

PreparationCalls ==
    {"createEphemeralDirectories", "copyPaths", "configureEnvVariables",
     "configureNodeProperties", "writeFileSync bootstrap.properties",
     "configureMirrorNodeProperties", "writeFileSync application.yml", "update"}
PreparationCalled == SelectSeq(log, LAMBDA c : c \in PreparationCalls)
GeneratedBootstrap ==
    File(appendProperties(appendProperties("", originalNodeConfiguration.bootsrapProperties),
                          ValueOf(EntryOf0.nodeConfiguration).properties))

(***************************************************************************)
(* C18: a successful activation has made its calls in the order create     *)
(* the skeleton, copy the path pairs, export the environment, write        *)
(* bootstrap.properties (when the entry has node properties), rewrite      *)
(* application.yml, deliver Finish; in every state application.yml is read *)
(* only after the copy of the same activation, and once                    *)
(* bootstrap.properties has been written, after the copy, it keeps the     *)
(* generated text.                                                         *)
(***************************************************************************)
C18_StepsInFixedOrder ==
    /\ Succeeded
         => PreparationCalled
              = <<"createEphemeralDirectories", "copyPaths", "configureEnvVariables",
                  "configureNodeProperties">>
                \o (IF IsDefined(EntryOf0.nodeConfiguration)
                    THEN <<"writeFileSync bootstrap.properties">> ELSE <<>>)
                \o <<"configureMirrorNodeProperties", "writeFileSync application.yml",
                     "update">>
    /\ (Called("copyPaths") /\ failure # "copyPaths") => fs.configDir
    /\ Called("configureMirrorNodeProperties")
         => (Called("copyPaths") /\ fs.configDir /\ Exists(fs.applicationYml))
    /\ Called("writeFileSync bootstrap.properties")
         => (Called("copyPaths") /\ fs.configDir /\ fs.bootstrap = GeneratedBootstrap)

\* the package holds a bootstrap.properties and the generated one survives
C18_Witness ==
    /\ Succeeded
    /\ Exists(srcBootstrap)
    /\ Called("writeFileSync bootstrap.properties")
    /\ fs.bootstrap # srcBootstrap
    /\ fs.bootstrap = GeneratedBootstrap

====
